---- MODULE Spec2Model ----
(***************************************************************************)
(* A model of the flux-sdk sandbox host (server.mjs: startServer): the     *)
(* persistent key/value store and its backing file, the message log with   *)
(* mention parsing, the viewer (SSE client) registry and broadcast, the    *)
(* plugin's message handler, and the HTTP handlers that drive them.        *)
(*                                                                         *)
(* JavaScript values are modelled as strings: a JSON value is "null",      *)
(* "v1", ...; the JavaScript value undefined, which JSON cannot express,   *)
(* is the marker Undefined.  A text is a sequence of one-character         *)
(* strings, so that the mention pattern is matched character by character. *)
(*                                                                         *)
(* The host is one Node process: every action below is one callback run    *)
(* to completion (or to its first await).  Each specification drives one   *)
(* part of the host and leaves the variables of the others alone.          *)
(***************************************************************************)
EXTENDS Naturals, Sequences, FiniteSets, TLC

VARIABLES
  proc,            \* "running" | "stopped" | "crashed": the Node process
  now,             \* Date.now(), the host's clock
  resp,            \* the last HTTP exchange of the storage and roster endpoints
  storage,         \* the Map `storage`: a function from its keys to values
  file,            \* .sandbox-storage.json: [exists, data]
  wrote,           \* per key, the value last put under it, or Absent
  users,           \* the roster `users`: a sequence of user records
  phase,           \* startServer's progress, "start" to "listening"
  backend,         \* what loading dist/backend.js came to
  messageHandler,  \* the handler onMessage recorded, or NoHandler
  messages,        \* the in-memory history `messages`
  reqs,            \* the POST /api/messages requests in flight, by slot
  clients,         \* the Set `clients`: the registered viewers
  conn,            \* each viewer's connection: "none" | "open" | "closed"
  written,         \* per viewer, the log indices res.write was called with
  received,        \* per viewer, the log indices that reached it
  closedAt,        \* per viewer, {the log length when its connection closed}
  removedAt,       \* per viewer, {the log length when its 'close' listener ran}
  cast,            \* the last broadcast sendMessage made
  got,             \* the last getMessages call: [called, limit, result]
  text,            \* a text handed to the mention extraction
  sendIds,         \* what the extraction in sendMessage returned, per call
  postIds,         \* what the extraction in POST /api/messages returned, per call
  read,            \* the last storage read: [called, via, key, value]
  order,           \* the slots of reqs, in the order their requests were accepted
  hook,            \* the plugin's startup: [ctx, calls, state]
  port,            \* the listening port: [requested, attempt, taken, bound, reported]
  puts,            \* the storage mutation requests in flight: [slots, order, serial]
  registered,      \* the handler the latest onMessage call was given, or NoHandler
  ui               \* a mounted useExtensionStorage hook and its server (ui.js)

procVars == <<proc, now, resp>>
storeVars == <<storage, file, wrote, users>>
hostVars == <<phase, backend, messageHandler, messages, reqs>>
castVars == <<clients, conn, written, received, closedAt, removedAt, cast>>
parseVars == <<text, sendIds, postIds>>
bootVars == <<hook, port>>
lateVars == <<puts, registered, ui>>
vars == <<procVars, storeVars, hostVars, castVars, got, parseVars, read, order, bootVars,
          lateVars>>

(***************************************************************************)
(* JavaScript values                                                       *)
(***************************************************************************)
Undefined == "#undefined"
JNull == "null"
\* A request body that is not JSON text.
Malformed == "#malformed"

\* The storage keys and JSON values the operations are driven with.
StrKeys == {"k1", "k2"}
JsonValues == {JNull, "v1", "v2"}
\* What a plugin, or a body that leaves `value` out, can pass as a value.
Values == JsonValues \cup {Undefined}
\* A body that leaves `key` out stores under the key undefined.
MapKeys == StrKeys \cup {Undefined}

EmptyTable == [k \in {} |-> JNull]

\* wrote[k] for a key that no set put a value under, or that was removed.
Absent == "#absent"
\* What the sets and removals that made the table `map` put under each key.
WroteBy(map) == [k \in MapKeys |-> IF k \in DOMAIN map THEN map[k] ELSE Absent]

\* ToString of a property key: data[k] = v with k undefined names "undefined".
PropertyKey(k) == IF k = Undefined THEN "undefined" ELSE k

(***************************************************************************)
(* persistStorage and the load at startup                                  *)
(***************************************************************************)
\* The object `data` persistStorage builds: one property per Map entry.
DataObject(map) ==
  [p \in {PropertyKey(k) : k \in DOMAIN map} |->
     map[CHOOSE k \in DOMAIN map : PropertyKey(k) = p]]

\* JSON.stringify(data, null, 2) read back by JSON.parse: a property whose
\* value is undefined is left out of the text.
Stringify(obj) ==
  [p \in {q \in DOMAIN obj : obj[q] # Undefined} |-> obj[p]]

\* fs.writeFileSync(storageFile, JSON.stringify(data, null, 2))
persistStorage(map) == [exists |-> TRUE, data |-> Stringify(DataObject(map))]

\* Lines 18-26: a new Map filled from Object.entries of the parsed file.
LoadStorage(f) == IF f.exists THEN f.data ELSE EmptyTable

\* Map.prototype.set / delete / get
\* A set that leaves a key that is present alone.
MapSetIfAbsent(map, k, v) ==
  [x \in DOMAIN map \cup {k} |-> IF x \in DOMAIN map THEN map[x] ELSE v]
MapSet(map, k, v) == [x \in DOMAIN map \cup {k} |-> IF x = k THEN v ELSE map[x]]
\* A clear that removes nothing.
MapClearNothing(map) == map
\* Map.prototype.clear
MapClear(map) == EmptyTable
\* for (const [k, v] of Object.entries(data)) storage.set(k, v)
SetEntries(map, data) ==
  [x \in DOMAIN map \cup DOMAIN data |-> IF x \in DOMAIN data THEN data[x] ELSE map[x]]
MapDelete(map, k) == [x \in DOMAIN map \ {k} |-> map[x]]
MapGet(map, k) == IF k \in DOMAIN map THEN map[k] ELSE Undefined
\* a ?? b
Coalesce(a, b) == IF a = Undefined \/ a = JNull THEN b ELSE a

(***************************************************************************)
(* Mention extraction: /<@([a-zA-Z0-9_-]+)>/g driven by exec in a loop     *)
(***************************************************************************)
Range(s) == {s[i] : i \in 1..Len(s)}

Lower == {"a","b","c","d","e","f","g","h","i","j","k","l","m",
          "n","o","p","q","r","s","t","u","v","w","x","y","z"}
Upper == {"A","B","C","D","E","F","G","H","I","J","K","L","M",
          "N","O","P","Q","R","S","T","U","V","W","X","Y","Z"}
Digits == {"0","1","2","3","4","5","6","7","8","9"}
\* [a-zA-Z0-9_-]
IdChars == Lower \cup Upper \cup Digits \cup {"_", "-"}

\* The end of the greedy run [a-zA-Z0-9_-]* that starts at p: the first
\* position at or after p that holds no identifier character.
RECURSIVE RunEnd(_, _)
RunEnd(t, p) == IF p <= Len(t) /\ t[p] \in IdChars THEN RunEnd(t, p + 1) ELSE p

\* The pattern matches at position s. The run cannot give characters back:
\* whatever follows a shorter run is an identifier character, not ">".
MatchAt(t, s) ==
  /\ s + 1 <= Len(t)
  /\ t[s] = "<"
  /\ t[s + 1] = "@"
  /\ LET e == RunEnd(t, s + 2) IN e > s + 2 /\ e <= Len(t) /\ t[e] = ">"

\* exec with lastIndex = from - 1: the leftmost match at or after `from`,
\* 0 for null.
Exec(t, from) ==
  IF \E s \in from..Len(t) : MatchAt(t, s)
  THEN CHOOSE s \in from..Len(t) : MatchAt(t, s) /\ \A r \in from..(s - 1) : ~MatchAt(t, r)
  ELSE 0

\* m[1] of the match at s, and the lastIndex the match leaves.
Capture(t, s) == SubSeq(t, s + 2, RunEnd(t, s + 2) - 1)
AfterMatch(t, s) == RunEnd(t, s + 2) + 1

\* sendMessage, lines 73-78: a new pattern (lastIndex 0) and a new list on
\* every call; the loop ends when exec returns null.
RECURSIVE SendMentionLoop(_, _, _)
SendMentionLoop(t, from, mentionIds) ==
  LET s == Exec(t, from) IN
  IF s = 0 THEN mentionIds
  ELSE SendMentionLoop(t, AfterMatch(t, s),
         IF Capture(t, s) \in Range(mentionIds) THEN mentionIds
         ELSE Append(mentionIds, Capture(t, s)))

SendMentionIds(content) == SendMentionLoop(content, 1, <<>>)

\* POST /api/messages, lines 167-172: the same loop, written out again.
RECURSIVE PostMentionLoop(_, _, _)
PostMentionLoop(t, from, mentionIds) ==
  LET s == Exec(t, from) IN
  IF s = 0 THEN mentionIds
  ELSE PostMentionLoop(t, AfterMatch(t, s),
         IF Capture(t, s) \in Range(mentionIds) THEN mentionIds
         ELSE Append(mentionIds, Capture(t, s)))

\* The loop without its includes test: every match is pushed.
RECURSIVE PostMentionLoopKeepAll(_, _, _)
PostMentionLoopKeepAll(t, from, mentionIds) ==
  LET s == Exec(t, from) IN
  IF s = 0 THEN mentionIds
  ELSE PostMentionLoopKeepAll(t, AfterMatch(t, s), Append(mentionIds, Capture(t, s)))

PostMentionIdsKeepAll(content) == PostMentionLoopKeepAll(content, 1, <<>>)

PostMentionIds(content) == PostMentionLoop(content, 1, <<>>)

(***************************************************************************)
(* The extraction applied to bounded texts                                 *)
(***************************************************************************)
\* A text is up to MaxSegments fragments, one after the other.
MaxSegments == 4
\* Each place is asked up to MaxCalls times for the same text.
MaxCalls == 2

Fragments ==
  {<<"<", "@", "a", ">">>, <<"<", "@", "b", ">">>, <<"<", "@">>, <<"a">>,
   <<"-">>, <<">">>, <<"<">>, <<" ">>}

RECURSIVE Flatten(_)
Flatten(segs) == IF segs = <<>> THEN <<>> ELSE Head(segs) \o Flatten(Tail(segs))

Texts == {Flatten(segs) : segs \in UNION {[1..n -> Fragments] : n \in 0..MaxSegments}}

ParseIdle == text = <<>> /\ sendIds = <<>> /\ postIds = <<>>

ExtractInSend ==
  /\ Len(sendIds) < MaxCalls
  /\ sendIds' = Append(sendIds, SendMentionIds(text))
  /\ UNCHANGED <<procVars, storeVars, hostVars, castVars, got, text, postIds,
                 read, order, bootVars, lateVars>>

ExtractInPost ==
  /\ Len(postIds) < MaxCalls
  /\ postIds' = Append(postIds, PostMentionIds(text))
  /\ UNCHANGED <<procVars, storeVars, hostVars, castVars, got, text, sendIds,
                 read, order, bootVars, lateVars>>


(***************************************************************************)
(* The roster                                                              *)
(***************************************************************************)
NoAvatar == "#none"
MockUser(i) ==
  [id |-> "user-" \o ToString(i), name |-> "Mock User " \o ToString(i),
   avatarUrl |-> "https://i.pravatar.cc/150?u=user-" \o ToString(i)]
MockUserCount == 10
InitialUsers == [i \in 1..MockUserCount |-> MockUser(i)]

\* users.findIndex(u => u.id === id), 0 when there is none
FindIndex(us, id) ==
  IF \E i \in 1..Len(us) : us[i].id = id
  THEN CHOOSE i \in 1..Len(us) : us[i].id = id /\ \A j \in 1..(i-1) : us[j].id # id
  ELSE 0

(***************************************************************************)
(* HTTP exchanges                                                          *)
(***************************************************************************)
\* status is the response's status code, 0 while no response was sent.
NoExchange == [route |-> "none", malformed |-> FALSE, status |-> 0]
Exchange(route, body, status) ==
  [route |-> route, malformed |-> (body = Malformed), status |-> status]

Running == proc = "running"

\* An await that keeps the thread until the handler has settled.
KeptByPending(rs) == {r \in DOMAIN rs : rs[r].state = "handling"}

\* Line 184: await messageHandler(event) returns to the event loop; the
\* requests whose pending handler keeps the host from running other
\* callbacks are none.
KeptBy(rs) == {}

\* The server exists and listens, and the event loop is free: requests
\* are routed.
Listening == Running /\ phase = "listening" /\ KeptBy(reqs) = {}
\* onLoad was called with ctx: the plugin can use the capabilities.
PluginHasCtx == Running /\ backend \in {"loaded", "failed"}

(***************************************************************************)
(* Request bodies                                                          *)
(***************************************************************************)
\* POST /api/storage: text that is not JSON, the JSON text null, or an
\* object whose key and value properties may each be missing.
StorageBodies ==
  {[kind |-> "malformed", key |-> Undefined, value |-> Undefined],
   [kind |-> "null", key |-> Undefined, value |-> Undefined]}
  \cup [kind : {"object"}, key : MapKeys, value : Values]

\* POST /api/storage/all: not JSON, null, a number, or a key/value table.
Tables == UNION {[K -> JsonValues] : K \in SUBSET StrKeys}
TableBodies ==
  {[kind |-> k, table |-> EmptyTable] : k \in {"malformed", "null", "number"}}
  \cup [kind : {"object"}, table : Tables]

\* POST /api/users: not JSON, null, or a user with or without an id.
UserBodies ==
  {[kind |-> "malformed", id |-> Undefined, name |-> Undefined],
   [kind |-> "null", id |-> Undefined, name |-> Undefined],
   [kind |-> "object", id |-> "user-1", name |-> "Renamed"],
   [kind |-> "object", id |-> "user-11", name |-> "Extra"],
   [kind |-> "object", id |-> Undefined, name |-> "New"]}

BodyText(body) == IF body.kind = "malformed" THEN Malformed ELSE body.kind

(***************************************************************************)
(* The plugin's storage capability (ctx.api.storage)                       *)
(***************************************************************************)
CtxStorageSet(k, v) ==
  /\ PluginHasCtx
  /\ storage' = MapSet(storage, k, v)
  /\ file' = persistStorage(storage')
  /\ wrote' = [wrote EXCEPT ![k] = v]
  /\ UNCHANGED <<proc, now, resp, users, hostVars, castVars, got, parseVars,
                 read, order, bootVars, lateVars>>

CtxStorageDelete(k) ==
  /\ PluginHasCtx
  /\ storage' = MapDelete(storage, k)
  /\ file' = persistStorage(storage')
  /\ wrote' = [wrote EXCEPT ![k] = Absent]
  /\ UNCHANGED <<proc, now, resp, users, hostVars, castVars, got, parseVars,
                 read, order, bootVars, lateVars>>

\* get: async (key) => storage.get(key) ?? null
CtxStorageGet(k) ==
  /\ PluginHasCtx
  /\ read' = [called |-> TRUE, via |-> "ctx", key |-> k,
              value |-> Coalesce(MapGet(storage, k), JNull)]
  /\ UNCHANGED <<procVars, storeVars, hostVars, castVars, got, parseVars,
                 order, bootVars, lateVars>>

(***************************************************************************)
(* The storage endpoints                                                   *)
(***************************************************************************)
\* GET /api/storage?key=k, lines 201-206: { value: storage.get(key) ?? null }
GetStorage(k) ==
  /\ Listening
  /\ resp' = Exchange("GET /api/storage", "", 200)
  /\ read' = [called |-> TRUE, via |-> "http", key |-> k,
              value |-> Coalesce(MapGet(storage, k), JNull)]
  /\ UNCHANGED <<proc, now, storeVars, hostVars, castVars, got, parseVars,
                 order, bootVars, lateVars>>

\* POST /api/storage, at the body's 'end': JSON.parse and the destructuring
\* are outside any try, so a throw is an uncaught exception of the process.
PostStorageEnd(body) ==
  /\ Listening
  /\ IF body.kind = "object"
     THEN /\ storage' = MapSet(storage, body.key, body.value)
          /\ file' = persistStorage(storage')
          /\ wrote' = [wrote EXCEPT ![body.key] = body.value]
          /\ resp' = Exchange("POST /api/storage", BodyText(body), 200)
          /\ UNCHANGED proc
     ELSE /\ proc' = "crashed"
          /\ resp' = Exchange("POST /api/storage", BodyText(body), 0)
          /\ UNCHANGED <<storage, file, wrote>>
  /\ UNCHANGED <<now, users, hostVars, castVars, got, parseVars,
                 read, order, bootVars, registered, ui>>

\* The request and its whole body arrive together.
PostStorage(body) == PostStorageEnd(body) /\ UNCHANGED puts

\* POST /api/storage/all, at the body's 'end': storage.clear() runs before
\* Object.entries(data), which throws for null; the catch answers 400.
PostStorageAllEnd(body) ==
  /\ Listening
  /\ CASE body.kind = "malformed" ->
            /\ resp' = Exchange("POST /api/storage/all", BodyText(body), 400)
            /\ UNCHANGED <<storage, file, wrote>>
       [] body.kind = "null" ->
            /\ storage' = MapClear(storage)
            /\ wrote' = [k \in MapKeys |-> Absent]
            /\ resp' = Exchange("POST /api/storage/all", BodyText(body), 400)
            /\ UNCHANGED file
       [] body.kind = "number" ->
            /\ storage' = MapClear(storage)
            /\ wrote' = [k \in MapKeys |-> Absent]
            /\ file' = persistStorage(storage')
            /\ resp' = Exchange("POST /api/storage/all", BodyText(body), 200)
       [] body.kind = "object" ->
            /\ storage' = SetEntries(MapClear(storage), body.table)
            /\ wrote' = [k \in MapKeys |->
                           IF k \in DOMAIN body.table THEN body.table[k] ELSE Absent]
            /\ file' = persistStorage(storage')
            /\ resp' = Exchange("POST /api/storage/all", BodyText(body), 200)
  /\ UNCHANGED <<proc, now, users, hostVars, castVars, got, parseVars,
                 read, order, bootVars, registered, ui>>

\* The request and its whole body arrive together.
PostStorageAll(body) == PostStorageAllEnd(body) /\ UNCHANGED puts

(***************************************************************************)
(* The roster endpoints                                                    *)
(***************************************************************************)
\* The roster is capped so that the model is finite.
MaxNewUsers == 1

PostUsers(body) ==
  /\ Listening
  /\ IF body.kind # "object"
     THEN /\ resp' = Exchange("POST /api/users", BodyText(body), 400)
          /\ UNCHANGED users
     ELSE /\ resp' = Exchange("POST /api/users", BodyText(body), 200)
          /\ IF body.id # Undefined
             THEN LET idx == FindIndex(users, body.id) IN
                  IF idx > 0
                  THEN users' = [users EXCEPT ![idx].name = body.name]
                  ELSE /\ Len(users) < MockUserCount + MaxNewUsers
                       /\ users' = Append(users,
                            [id |-> body.id, name |-> body.name, avatarUrl |-> NoAvatar])
             ELSE /\ Len(users) < MockUserCount + MaxNewUsers
                  /\ users' = Append(users,
                       [id |-> "user-" \o ToString(now), name |-> body.name,
                        avatarUrl |-> "https://i.pravatar.cc/150?u=user-" \o ToString(now)])
  /\ UNCHANGED <<proc, now, storage, file, wrote, hostVars, castVars, got, parseVars,
                 read, order, bootVars, lateVars>>

\* users = users.filter(u => u.id !== id)
DeleteUsers(id) ==
  /\ Listening
  /\ users' = SelectSeq(users, LAMBDA u : u.id # id)
  /\ resp' = Exchange("DELETE /api/users", "", 200)
  /\ UNCHANGED <<proc, now, storage, file, wrote, hostVars, castVars, got, parseVars,
                 read, order, bootVars, lateVars>>

(***************************************************************************)
(* Storage mutation requests whose bodies arrive in pieces                 *)
(***************************************************************************)
\* The mutation requests in flight are capped so that the model is finite.
MaxPuts == 2
PutSlots == 1..MaxPuts

\* A POST /api/storage or POST /api/storage/all request with a JSON body.
\* body holds both the { key, value } POST /api/storage reads and the table
\* POST /api/storage/all reads; each route uses its own part.
NoPutBody == [kind |-> "none", key |-> Undefined, value |-> Undefined, table |-> EmptyTable]
PutRequests ==
  {[route |-> "POST /api/storage",
    body |-> [NoPutBody EXCEPT !.kind = "object", !.key = "k1", !.value = v]] :
     v \in {"v1", "v2"}}
  \cup
  {[route |-> "POST /api/storage/all",
    body |-> [NoPutBody EXCEPT !.kind = "object", !.table = t]] :
     t \in {t \in Tables : DOMAIN t \in {{}, {"k2"}}}}

NoPut == [state |-> "idle", route |-> "none", body |-> NoPutBody]
\* slots holds the requests, order the slots of the requests in flight in
\* the order the router accepted them, and serial {the table that the
\* requests accepted since none was in flight give when they are applied in
\* that order to the table they found}, {} before the first request.
NoPuts == [slots |-> [r \in PutSlots |-> NoPut], order |-> <<>>, serial |-> {}]

\* What one mutation request makes of the table (lines 213 and 235-238).
TableAfter(map, req) ==
  IF req.route = "POST /api/storage"
  THEN MapSet(map, req.body.key, req.body.value)
  ELSE SetEntries(MapClear(map), req.body.table)

\* Lines 208-211, 218 and 229-232, 247: the router sets the 'data' and
\* 'end' listeners of the request and returns.
AcceptPut(r, req) ==
  /\ Listening
  /\ puts.slots[r].state = "idle"
  /\ puts' = [slots |-> [puts.slots EXCEPT ![r] =
                           [state |-> "open", route |-> req.route, body |-> req.body]],
              order |-> Append(puts.order, r),
              serial |-> {TableAfter(IF puts.order = <<>> THEN storage
                                     ELSE CHOOSE t \in puts.serial : TRUE, req)}]
  /\ UNCHANGED <<procVars, storeVars, hostVars, castVars, got, parseVars,
                 read, order, bootVars, registered, ui>>

\* Lines 211-217 and 232-246: the 'end' listener of one request in flight.
EndPut(r) ==
  /\ puts.slots[r].state = "open"
  /\ IF puts.slots[r].route = "POST /api/storage"
     THEN PostStorageEnd(puts.slots[r].body)
     ELSE PostStorageAllEnd(puts.slots[r].body)
  /\ puts' = [puts EXCEPT !.slots[r] = NoPut,
                          !.order = SelectSeq(puts.order, LAMBDA q : q # r)]
(***************************************************************************)
(* Messages                                                                *)
(***************************************************************************)
NoHandler == "#none"
Handlers == {"h1", "h2"}
\* manifest.name || 'Extension'
ManifestName == "Demo"

\* "hello <@user-2> and <@user-2>"
Hello ==
  <<"h","e","l","l","o"," ","<","@","u","s","e","r","-","2",">"," ","a","n","d",
    " ","<","@","u","s","e","r","-","2",">">>
\* "<@b><@a>"
TwoIds == <<"<","@","b",">","<","@","a",">">>
\* "ok <@a>"
Reply == <<"o","k"," ","<","@","a",">">>

\* POST /api/messages bodies: not JSON, the JSON text null, or
\* {userId, content, mentionIds?}.
NoBody ==
  [kind |-> "none", userId |-> Undefined, content |-> <<>>,
   hasIds |-> FALSE, mentionIds |-> <<>>]
MessageBodies ==
  {[NoBody EXCEPT !.kind = "malformed"],
   [NoBody EXCEPT !.kind = "null"],
   [kind |-> "object", userId |-> "user-1", content |-> Hello,
    hasIds |-> FALSE, mentionIds |-> <<>>],
   [kind |-> "object", userId |-> "ghost", content |-> TwoIds,
    hasIds |-> TRUE, mentionIds |-> << <<"a">>, <<"a">>, <<"c">> >>]}

\* [...new Set(list)]: the first occurrence of each element, in order.
RECURSIVE SetSpread(_, _)
SetSpread(list, acc) ==
  IF list = <<>> THEN acc
  ELSE SetSpread(Tail(list),
         IF Head(list) \in Range(acc) THEN acc ELSE Append(acc, Head(list)))

\* [...new Set([...(data.mentionIds || []), ...mentionIds])]
EventMentionIds(data) ==
  SetSpread((IF data.hasIds THEN data.mentionIds ELSE <<>>)
              \o PostMentionIds(data.content), <<>>)

\* users.find(u => u.id === data.userId) || { id: data.userId, name: 'You' }
Sender(us, userId) ==
  IF FindIndex(us, userId) > 0 THEN us[FindIndex(us, userId)]
  ELSE [id |-> userId, name |-> "You"]

MsgId(t) == "msg-" \o ToString(t)

\* Lines 174-182: the event, and the entry { ...event, user: sender }.
UserEntry(data, us, t) ==
  [id |-> MsgId(t), channelId |-> "sandbox-channel",
   workspaceId |-> "sandbox-workspace", content |-> data.content,
   userId |-> data.userId, mentionIds |-> EventMentionIds(data),
   user |-> Sender(us, data.userId)]

\* Lines 80-88: the message sendMessage builds.
BotEntry(channelId, content, t) ==
  [id |-> MsgId(t), channelId |-> channelId, content |-> content,
   userId |-> "ext-bot", mentionIds |-> SendMentionIds(content),
   createdAt |-> t, user |-> [id |-> "ext-bot", name |-> ManifestName]]

\* A push into a log that holds one entry at most: the oldest gives way.
PushKeepOne(log, msg) == <<msg>>

\* messages.push(msg), lines 89 and 182
Push(log, msg) == Append(log, msg)

\* getMessages: messages.slice(-limit), limit = 50 when the argument is
\* left out. slice counts a negative start from the end and clamps it at 0;
\* -0 is 0, which is the start of the array.
DefaultLimit == 50
Omitted == [given |-> FALSE, value |-> 0]
Limit(k) == [given |-> TRUE, value |-> k]
SliceFromEnd(list, n) ==
  IF n = 0 THEN list
  ELSE IF n >= Len(list) THEN list
  ELSE SubSeq(list, Len(list) - n + 1, Len(list))
getMessages(list, limit) ==
  SliceFromEnd(list, IF limit.given THEN limit.value ELSE DefaultLimit)

(***************************************************************************)
(* Startup, the clock and the plugin's registrations                       *)
(***************************************************************************)
\* The log, the requests in flight and the viewers are capped so that the
\* model is finite.
MaxLog == 2
MaxReq == 2
MaxViewers == 2

Slots == 1..MaxReq
Viewers == 1..MaxViewers

\* The clock is followed over a few milliseconds.
MaxClock == 1

\* Date.now() moves on by a millisecond between two callbacks.
Tick ==
  /\ Running
  /\ now < MaxClock
  /\ now' = now + 1
  /\ UNCHANGED <<proc, resp, storeVars, hostVars, castVars, got, parseVars,
                 read, order, bootVars, lateVars>>

\* A registration that keeps the handler registered first.
RegisterKeepFirst(current, h) == IF current = NoHandler THEN h ELSE current

\* Line 100: messageHandler = handler. One variable holds the handler;
\* each call replaces what it held.
Register(current, h) == h

\* Lines 108-127 and 360: dist/backend.js is absent, exports nothing
\* recognized, or exports an extension whose onLoad(ctx) completes
\* ("loaded") or throws ("failed"); onLoad may have called onMessage(h).
\* Then the server is created and listens.
Startup(kind, h) ==
  /\ Running
  /\ phase = "start"
  /\ kind \in {"absent", "unrecognized"} => h = NoHandler
  /\ backend' = kind
  /\ messageHandler' = Register(messageHandler, h)
  /\ registered' = h
  /\ phase' = "listening"
  /\ UNCHANGED <<procVars, storeVars, messages, reqs, castVars, got, parseVars,
                 read, order, bootVars, puts, ui>>

\* ctx.api.onMessage, lines 99-101. registered is the handler the latest
\* call was given.
OnMessage(h) ==
  /\ PluginHasCtx
  /\ phase = "listening"
  /\ messageHandler' = Register(messageHandler, h)
  /\ registered' = h
  /\ UNCHANGED <<procVars, storeVars, phase, backend, messages, reqs,
                 castVars, got, parseVars,
                 read, order, bootVars, puts, ui>>

(***************************************************************************)
(* POST /api/messages                                                      *)
(***************************************************************************)
\* A request: state is "idle", "accepted" (the listeners are set, the body
\* is arriving), "handling" (the handler is awaited), "answered" (res.end
\* was called) or "hung" (the 'end' listener threw: no response will come).
\* at is the index of the log entry the request appended, 0 for none;
\* invoked lists the handlers the request was handed to, one per call.
IdleReq ==
  [state |-> "idle", body |-> NoBody, handler |-> NoHandler, at |-> 0,
   status |-> 0, detail |-> "", invoked |-> <<>>]

\* Lines 159-161 and 197: the listeners are set and the callback returns.
\* order keeps the slots in the order the router accepted the requests
\* they hold now.
Accept(r, body) ==
  /\ Listening
  /\ reqs[r].state \in {"idle", "answered"}
  /\ reqs' = [reqs EXCEPT ![r] = [IdleReq EXCEPT !.state = "accepted", !.body = body]]
  /\ order' = Append(SelectSeq(order, LAMBDA q : q # r), r)
  /\ UNCHANGED <<procVars, storeVars, phase, backend, messageHandler, messages,
                 castVars, got, parseVars, read, bootVars, lateVars>>

\* The async 'end' listener rejected and nobody holds its promise: an
\* unhandled rejection, which ends the process (the default since Node 15)
\* or is only reported; either way the response is never sent.
Unhandled(r) ==
  /\ reqs' = [reqs EXCEPT ![r].state = "hung"]
  /\ \E fatal \in BOOLEAN : proc' = IF fatal THEN "crashed" ELSE "running"

\* Lines 162-184 and 192-195: the 'end' listener up to its await.
BodyEnd(r) ==
  /\ Listening
  /\ reqs[r].state = "accepted"
  /\ LET data == reqs[r].body IN
     CASE data.kind = "malformed" ->
            Unhandled(r) /\ UNCHANGED messages
       [] data.kind # "malformed" /\ messageHandler = NoHandler ->
            /\ reqs' = [reqs EXCEPT ![r].state = "answered", ![r].status = 200,
                                    ![r].detail = "No message handler registered"]
            /\ UNCHANGED <<proc, messages>>
       [] data.kind = "null" /\ messageHandler # NoHandler ->
            Unhandled(r) /\ UNCHANGED messages
       [] data.kind = "object" /\ messageHandler # NoHandler ->
            /\ Len(messages) < MaxLog
            /\ messages' = Push(messages, UserEntry(data, users, now))
            /\ reqs' = [reqs EXCEPT ![r].state = "handling",
                                    ![r].handler = messageHandler,
                                    ![r].invoked = <<messageHandler>>,
                                    ![r].at = Len(messages) + 1]
            /\ UNCHANGED proc
  /\ UNCHANGED <<now, resp, storeVars, phase, backend, messageHandler,
                 castVars, got, parseVars,
                 read, order, bootVars, lateVars>>

\* Lines 184-191: the awaited handler settles. It resolves, rejects with an
\* Error, or rejects with undefined or null (Promise.reject()), on which
\* e.message throws inside the catch, after writeHead(500) and before
\* res.end.
Outcomes == {"resolve", "rejectError", "rejectNullish"}

HandlerSettles(r, outcome) ==
  /\ Running
  /\ reqs[r].state = "handling"
  /\ CASE outcome = "resolve" ->
            /\ reqs' = [reqs EXCEPT ![r].state = "answered", ![r].status = 200,
                                    ![r].detail = "success"]
            /\ UNCHANGED proc
       [] outcome = "rejectError" ->
            /\ reqs' = [reqs EXCEPT ![r].state = "answered", ![r].status = 500,
                                    ![r].detail = "boom"]
            /\ UNCHANGED proc
       [] outcome = "rejectNullish" -> Unhandled(r)
  /\ UNCHANGED <<now, resp, storeVars, phase, backend, messageHandler, messages,
                 castVars, got, parseVars,
                 read, order, bootVars, lateVars>>

\* ctx.api.getMessages, lines 95-97
GetMessages(limit) ==
  /\ PluginHasCtx
  /\ got' = [called |-> TRUE, limit |-> limit, result |-> getMessages(messages, limit)]
  /\ UNCHANGED <<procVars, storeVars, hostVars, castVars, parseVars,
                 read, order, bootVars, lateVars>>

(***************************************************************************)
(* startServer step by step: context, backend, hook, listen                *)
(***************************************************************************)
\* phase runs "start" -> "importing" -> "hook" -> "binding" -> "listening"
\* (or "unbound"); each action below is one run of startServer between two
\* awaits, or one event of the server. backend is "absent", "unrecognized",
\* "broken" (the import threw), "loading" (onLoad is running), "loaded" or
\* "failed" (onLoad threw or rejected).

\* --port, default 3000 (bin.mjs line 9)
RequestedPorts == {3000, 49152}
\* What the system hands out for listen(0).
EphemeralPorts == {49152, 49153}

\* Lines 8-110 with no dist/backend.js, then 125-364: ctx is built, the
\* else branch logs, the server is created and server.listen(port) is
\* called, all in one run.
StartAbsent ==
  /\ Running
  /\ phase = "start"
  /\ hook' = [hook EXCEPT !.ctx = @ + 1]
  /\ backend' = "absent"
  /\ phase' = "binding"
  /\ port' = [port EXCEPT !.attempt = port.requested]
  /\ UNCHANGED <<procVars, storeVars, messageHandler, messages, reqs, castVars,
                 got, parseVars, read, order, lateVars>>

\* Lines 8-114 with dist/backend.js present: ctx is built and the import
\* is awaited.
StartImport ==
  /\ Running
  /\ phase = "start"
  /\ hook' = [hook EXCEPT !.ctx = @ + 1]
  /\ phase' = "importing"
  /\ UNCHANGED <<procVars, storeVars, backend, messageHandler, messages, reqs,
                 castVars, got, parseVars, read, order, port, lateVars>>

\* What startServer does once the import has settled, without awaiting
\* the hook.
PhaseAfterImportNoAwait(kind) == "binding"

\* Lines 115-121: a recognized extension has its onLoad awaited; anything
\* else lets startServer run on to server.listen.
PhaseAfterImport(kind) == IF kind = "recognized" THEN "hook" ELSE "binding"

\* Lines 114-124 once the import settles: the module has no extension
\* with an onLoad ("unrecognized"), the import threw ("broken"), or
\* ext.onLoad(ctx) is called and awaited ("recognized").
ImportSettles(kind) ==
  /\ Running
  /\ phase = "importing"
  /\ phase' = PhaseAfterImport(kind)
  /\ IF kind = "recognized"
     THEN /\ backend' = "loading"
          /\ hook' = [hook EXCEPT !.calls = @ + 1, !.state = "running"]
     ELSE /\ backend' = kind
          /\ UNCHANGED hook
  /\ port' = IF phase' = "binding" THEN [port EXCEPT !.attempt = port.requested]
             ELSE port
  /\ UNCHANGED <<procVars, storeVars, messageHandler, messages, reqs, castVars,
                 got, parseVars, read, order, lateVars>>

\* onLoad calls ctx.api.onMessage(h) while it runs (lines 99-101).
HookRegisters(h) ==
  /\ Running
  /\ hook.state = "running"
  /\ messageHandler' = Register(messageHandler, h)
  /\ registered' = h
  /\ UNCHANGED <<procVars, storeVars, phase, backend, messages, reqs, castVars,
                 got, parseVars, read, order, bootVars, puts, ui>>

\* A rejection of onLoad that nothing catches: startServer rejects and
\* bin.mjs exits.
AfterHookRejectsUncaught == [proc |-> "crashed", phase |-> "hook"]

\* Lines 122-124: the catch logs the failure and startServer runs on to
\* server.listen.
AfterHookRejects == [proc |-> "running", phase |-> "binding"]

\* A catch that also drops what the hook registered.
HandlerResetOnReject(h) == NoHandler

\* Lines 122-124: the catch only logs; messageHandler keeps what onLoad
\* gave to onMessage before it failed.
HandlerAfterHookRejects(h) == h

\* Lines 117-118 or 122-124, then 129-364: the awaited onLoad resolves or
\* rejects; the server is created and server.listen(port) is called.
HookSettles(outcome) ==
  /\ Running
  /\ phase = "hook"
  /\ hook.state = "running"
  /\ hook' = [hook EXCEPT !.state = outcome]
  /\ IF outcome = "resolved"
     THEN /\ backend' = "loaded"
          /\ phase' = "binding"
          /\ UNCHANGED proc
     ELSE /\ backend' = "failed"
          /\ phase' = AfterHookRejects.phase
          /\ proc' = AfterHookRejects.proc
  /\ port' = IF phase' = "binding" THEN [port EXCEPT !.attempt = port.requested]
             ELSE port
  /\ messageHandler' = IF outcome = "resolved" THEN messageHandler
                       ELSE HandlerAfterHookRejects(messageHandler)
  /\ UNCHANGED <<now, resp, storeVars, messages, reqs, castVars,
                 got, parseVars, read, order, lateVars>>

\* An error handler that only logs.
ErrorHandlerNoRetry(code) == "unbound"

\* Lines 351-358: EADDRINUSE makes the handler call server.listen(0);
\* any other error is logged and the server stays unbound.
ErrorHandler(code) == IF code = "EADDRINUSE" THEN "binding" ELSE "unbound"

\* The 'error' event of the first listen: the requested port is occupied
\* (EADDRINUSE) or may not be bound (EACCES). listen(0) does not fail so.
OnError(code) ==
  /\ Running
  /\ phase = "binding"
  /\ port.attempt # 0
  /\ phase' = ErrorHandler(code)
  /\ port' = [port EXCEPT !.taken = (code = "EADDRINUSE"),
                          !.attempt = IF phase' = "binding" THEN 0 ELSE @]
  /\ UNCHANGED <<procVars, storeVars, backend, messageHandler, messages, reqs,
                 castVars, got, parseVars, read, order, hook, lateVars>>

\* The 'listening' event, lines 360-364: the callback given to the first
\* listen stays registered (once) and runs for whichever listen succeeds;
\* it logs server.address().port. assigned is the port the system picks
\* for listen(0): one that is not occupied.
OnListening(assigned) ==
  /\ Running
  /\ phase = "binding"
  /\ assigned \in EphemeralPorts
  /\ port.taken => assigned # port.requested
  /\ phase' = "listening"
  /\ port' = [port EXCEPT
                !.bound = IF port.attempt = 0 THEN assigned ELSE port.attempt,
                !.reported = IF port.attempt = 0 THEN assigned ELSE port.attempt]
  /\ UNCHANGED <<procVars, storeVars, backend, messageHandler, messages, reqs,
                 castVars, got, parseVars, read, order, hook, lateVars>>

(***************************************************************************)
(* Viewers and broadcast                                                   *)
(***************************************************************************)
NoCast ==
  [index |-> 0, targets |-> {}, failed |-> {}, after |-> {}, settled |-> "none"]

\* GET /api/events, lines 145-156: the response stays open and the viewer
\* is added to clients; its removal waits for the request's 'close'.
Subscribe(v) ==
  /\ Listening
  /\ conn[v] = "none"
  /\ conn' = [conn EXCEPT ![v] = "open"]
  /\ clients' = clients \cup {v}
  /\ UNCHANGED <<procVars, storeVars, hostVars, written, received, closedAt,
                 removedAt, cast, got, parseVars,
                 read, order, bootVars, lateVars>>

\* The viewer goes away: its connection is closed, and the 'close' event
\* of its request is due.
Disconnect(v) ==
  /\ Running
  /\ conn[v] = "open"
  /\ conn' = [conn EXCEPT ![v] = "closed"]
  /\ closedAt' = [closedAt EXCEPT ![v] = {Len(messages)}]
  /\ UNCHANGED <<procVars, storeVars, hostVars, clients, written, received,
                 removedAt, cast, got, parseVars,
                 read, order, bootVars, lateVars>>

\* A 'close' listener that leaves the registry as it is.
CloseListenerKeeps(cl, v) == cl

\* Line 154: req.on('close', () => clients.delete(client))
CloseListener(cl, v) == cl \ {v}

CloseEvent(v) ==
  /\ Running
  /\ conn[v] = "closed"
  /\ removedAt[v] = {}
  /\ clients' = CloseListener(clients, v)
  /\ removedAt' = [removedAt EXCEPT ![v] = {Len(messages)}]
  /\ UNCHANGED <<procVars, storeVars, hostVars, conn, written, received,
                 closedAt, cast, got, parseVars,
                 read, order, bootVars, lateVars>>

\* A loop that stops after its first write.
WriteTargetsFirstOnly(cl) == IF cl = {} THEN {} ELSE {CHOOSE v \in cl : TRUE}

\* Lines 91-93: for (const client of clients) client.res.write(...).
\* The viewers the loop writes to, each once.
WriteTargets(cl) == cl

\* res.write on a response whose connection has closed delivers nothing
\* and does not throw: it returns false and reports the error only to the
\* callback, which is not given.
WriteFails(v) == conn[v] # "open"

\* A loop that writes before the message is pushed.
LogAtWriteBeforePush(log, msg) == log

\* Line 89 stands before the loop of lines 91-93: the log the writes find
\* already holds the message.
LogAtWrite(log, msg) == Append(log, msg)

\* Where msg stands in log (its latest occurrence), 0 when it is not there.
IndexIn(log, msg) ==
  IF \E i \in 1..Len(log) : log[i] = msg
  THEN CHOOSE i \in 1..Len(log) : log[i] = msg /\ \A j \in (i + 1)..Len(log) : log[j] # msg
  ELSE 0

\* ctx.api.sendMessage, lines 70-94: the message is pushed, then written
\* to every client; what write returns is not looked at, and clients is not
\* changed. written records, for each write, where the message stood in
\* the log when it was written.
SendMessage(channelId, content) ==
  /\ PluginHasCtx
  /\ Len(messages) < MaxLog
  /\ LET msg == BotEntry(channelId, content, now)
         index == Len(messages) + 1
         targets == WriteTargets(clients) IN
     /\ messages' = Push(messages, msg)
     /\ written' = [v \in Viewers |->
                      IF v \in targets
                      THEN Append(written[v], IndexIn(LogAtWrite(messages, msg), msg))
                      ELSE written[v]]
     /\ received' = [v \in Viewers |->
                      IF v \in targets /\ ~WriteFails(v)
                      THEN received[v] \cup {index} ELSE received[v]]
     /\ cast' = [index |-> index, targets |-> clients,
                 failed |-> {v \in targets : WriteFails(v)},
                 after |-> clients, settled |-> "resolved"]
  /\ UNCHANGED <<procVars, storeVars, phase, backend, messageHandler, reqs,
                 clients, conn, closedAt, removedAt, got, parseVars,
                 read, order, bootVars, lateVars>>
(***************************************************************************)
(* The router: the callback of http.createServer                           *)
(***************************************************************************)
Methods == {"GET", "POST", "PUT", "DELETE", "OPTIONS"}
StaticPaths == {"/bundle.js", "/manifest.json", "/icon.png", "/"}
Paths ==
  {"/api/events", "/api/messages", "/api/storage", "/api/storage/all",
   "/api/users", "/nope"} \cup StaticPaths

\* Lines 135-348: the branch the callback takes, in the order it tests
\* them. /api/events and the four static paths are tested by pathname
\* alone, and OPTIONS is answered before any path is looked at.
RouteOf(method, path) ==
  IF method = "OPTIONS" THEN "preflight"
  ELSE IF path = "/api/events" THEN "events"
  ELSE IF path = "/api/messages" /\ method = "POST" THEN "messages"
  ELSE IF path = "/api/storage" /\ method = "GET" THEN "getStorage"
  ELSE IF path = "/api/storage" /\ method = "POST" THEN "postStorage"
  ELSE IF path = "/api/storage/all" /\ method = "GET" THEN "getStorageAll"
  ELSE IF path = "/api/storage/all" /\ method = "POST" THEN "postStorageAll"
  ELSE IF path = "/api/users" /\ method = "GET" THEN "getUsers"
  ELSE IF path = "/api/users" /\ method = "POST" THEN "postUsers"
  ELSE IF path = "/api/users" /\ method = "DELETE" THEN "deleteUsers"
  ELSE IF path \in StaticPaths THEN "static"
  ELSE "notFound"

\* The branches that read no body and hold no handler of their own above.
PlainRoutes ==
  {"preflight", "events", "getStorageAll", "getUsers", "static", "notFound"}

\* One request run through the callback. v is the connection it arrives
\* on; found tells whether the file a static path names exists.
Request(method, path, v, found) ==
  /\ Listening
  /\ RouteOf(method, path) \in PlainRoutes
  /\ conn[v] = "none"
  /\ LET route == RouteOf(method, path)
         status == CASE route = "notFound" -> 404
                     [] route = "static" -> IF found THEN 200 ELSE 404
                     [] OTHER -> 200 IN
     /\ resp' = Exchange(method \o " " \o path, "", status)
     /\ IF route = "events"
        THEN /\ conn' = [conn EXCEPT ![v] = "open"]
             /\ clients' = clients \cup {v}
        ELSE UNCHANGED <<conn, clients>>
  /\ UNCHANGED <<proc, now, storeVars, hostVars, written, received, closedAt,
                 removedAt, cast, got, parseVars, read, order, bootVars, lateVars>>

(***************************************************************************)
(* useExtensionStorage (ui.js): one mounted hook and the storage it calls  *)
(***************************************************************************)
\* The loads one hook starts are capped so that the model is finite.
MaxLoads == 2
LoadIds == 1..MaxLoads

\* A load: the fetch is "fetching" until the server has read the value
\* ("served"), and "settled" once the code after the awaits has run.
\* aborted is controller.signal.aborted.
NoLoad == [state |-> "none", key |-> "", value |-> JNull, aborted |-> FALSE]
\* set or remove: "sent", then "served" (the server has stored or deleted),
\* then back to "idle" once the code after the await has run.
NoChange == [state |-> "idle", op |-> "none", key |-> "", value |-> JNull]

\* useState(null), useState(true), useState(null), useRef(null); remote is
\* the value the storage service holds under each key, null for none.
\* settled is the value of the last set that resolved, while no set,
\* remove or change of key followed it; late tells whether a load that a
\* newer load superseded wrote data, error or isLoading.
NoUi ==
  [mounted |-> FALSE, key |-> "k1", remote |-> [k \in StrKeys |-> JNull],
   data |-> JNull, isLoading |-> TRUE, error |-> JNull,
   loads |-> [i \in LoadIds |-> NoLoad], started |-> 0, abortRef |-> 0,
   change |-> NoChange, settled |-> [valid |-> FALSE, value |-> JNull],
   late |-> FALSE]

\* abortRef.current?.abort(), line 91 and the effect's cleanup, line 117
AbortCurrent(loads, ref) ==
  IF ref = 0 THEN loads ELSE [loads EXCEPT ![ref].aborted = TRUE]

\* Lines 85-102: load() up to its first await, for the key in use.
StartLoad(u, key) ==
  LET id == u.started + 1 IN
  [u EXCEPT !.loads = [AbortCurrent(u.loads, u.abortRef) EXCEPT
                         ![id] = [NoLoad EXCEPT !.state = "fetching", !.key = key]],
            !.started = id, !.abortRef = id, !.isLoading = TRUE, !.error = JNull]

UiFrame ==
  UNCHANGED <<procVars, storeVars, hostVars, castVars, got, parseVars,
              read, order, bootVars, puts, registered>>

\* Lines 115-118: the effect runs at mount.
UiMount ==
  /\ ~ui.mounted
  /\ ui' = [StartLoad(ui, ui.key) EXCEPT !.mounted = TRUE]
  /\ UiFrame

\* The key prop changes: the effect's cleanup aborts the load in flight
\* and the effect calls the new load. data is left as it is.
UiRekey(key) ==
  /\ ui.mounted
  /\ key # ui.key
  /\ ui.started < MaxLoads
  /\ ui' = [StartLoad(ui, key) EXCEPT !.key = key, !.settled.valid = FALSE]
  /\ UiFrame

\* The storage service answers the GET of a load.
UiLoadServed(id) ==
  /\ ui.loads[id].state = "fetching"
  /\ ~ui.loads[id].aborted
  /\ ui' = [ui EXCEPT !.loads[id].state = "served",
                      !.loads[id].value = ui.remote[ui.loads[id].key]]
  /\ UiFrame

\* Lines 103-112: the code after the awaits. An aborted fetch, or an
\* aborted res.json(), rejects with an AbortError: the catch sets no error
\* and the finally leaves isLoading. Otherwise the response is !ok (an
\* error is set) or its value is put in data.
UiLoadSettles(id, ok) ==
  /\ ui.loads[id].state \in {"fetching", "served"}
  /\ ui.loads[id].state = "fetching" => ui.loads[id].aborted
  /\ LET load == ui.loads[id]
         done == [ui EXCEPT !.loads[id].state = "settled"] IN
     ui' = IF load.aborted THEN done
           ELSE IF ok
           THEN [done EXCEPT !.data = Coalesce(load.value, JNull), !.isLoading = FALSE,
                             !.late = @ \/ id # ui.abortRef]
           ELSE [done EXCEPT !.error = "HTTP 500", !.isLoading = FALSE,
                             !.late = @ \/ id # ui.abortRef]
  /\ UiFrame

\* Lines 120-130 and 140-148: set(value) or remove() up to its await.
UiChangeCalled(op, value) ==
  /\ ui.mounted
  /\ ui.change.state = "idle"
  /\ op = "remove" => value = JNull
  /\ ui' = [ui EXCEPT !.change = [state |-> "sent", op |-> op, key |-> ui.key,
                                  value |-> value],
                      !.settled.valid = FALSE]
  /\ UiFrame

\* The storage service stores the value of the PUT, or deletes the key.
UiChangeServed ==
  /\ ui.change.state = "sent"
  /\ ui' = [ui EXCEPT !.change.state = "served",
                      !.remote[ui.change.key] = ui.change.value]
  /\ UiFrame

\* Lines 131-135 and 149-153: the response is ok; setData(value) or
\* setData(null), and the promise resolves.
UiChangeSettles ==
  /\ ui.change.state = "served"
  /\ ui' = [ui EXCEPT !.change = NoChange,
                      !.data = ui.change.value,
                      !.settled = IF ui.change.op = "set" /\ ui.change.key = ui.key
                                  THEN [valid |-> TRUE, value |-> ui.change.value]
                                  ELSE [valid |-> FALSE, value |-> JNull]]
  /\ UiFrame
(***************************************************************************)
(* Initial states                                                          *)
(***************************************************************************)
StoreIdle ==
  /\ storage = EmptyTable
  /\ file = [exists |-> FALSE, data |-> EmptyTable]
  /\ wrote = WroteBy(storage)
  /\ users = InitialUsers

NoRequests == reqs = [r \in Slots |-> IdleReq]
HostIdle == messages = <<>> /\ NoRequests

CastIdle ==
  /\ clients = {}
  /\ conn = [v \in Viewers |-> "none"]
  /\ written = [v \in Viewers |-> <<>>]
  /\ received = [v \in Viewers |-> {}]
  /\ closedAt = [v \in Viewers |-> {}]
  /\ removedAt = [v \in Viewers |-> {}]
  /\ cast = NoCast

RecentIdle == got = [called |-> FALSE, limit |-> Omitted, result |-> <<>>]

\* No storage read was made, no request is accepted, and startServer's
\* steps and the port are not followed.
NoRead == [called |-> FALSE, via |-> "none", key |-> "", value |-> JNull]
NoHook == [ctx |-> 0, calls |-> 0, state |-> "none"]
NoPort == [requested |-> 0, attempt |-> 0, taken |-> FALSE, bound |-> 0, reported |-> 0]
\* No storage request is in flight, onMessage was not called and no hook
\* is mounted.
LateIdle == puts = NoPuts /\ registered = NoHandler /\ ui = NoUi
RestIdle == read = NoRead /\ order = <<>> /\ hook = NoHook /\ port = NoPort /\ LateIdle

ProcFresh == proc = "running" /\ now = 0 /\ resp = NoExchange

\* startServer has come to listen with a plugin whose onLoad completed and
\* registered no handler.
PluginListening ==
  phase = "listening" /\ backend = "loaded" /\ messageHandler = NoHandler

(***************************************************************************)
(* The host: startup, submissions, the handler, viewers and broadcast      *)
(***************************************************************************)
\* The state when startServer has built ctx (line 107).
Init ==
  /\ ProcFresh
  /\ StoreIdle
  /\ phase = "start" /\ backend = "unloaded" /\ messageHandler = NoHandler
  /\ HostIdle
  /\ CastIdle
  /\ RecentIdle
  /\ ParseIdle
  /\ RestIdle

Next ==
  \/ \E kind \in {"absent", "unrecognized", "loaded", "failed"},
        h \in Handlers \cup {NoHandler} : Startup(kind, h)
  \/ \E h \in Handlers : OnMessage(h)
  \/ \E r \in Slots, body \in MessageBodies : Accept(r, body)
  \/ \E r \in Slots : BodyEnd(r)
  \/ \E r \in Slots, outcome \in Outcomes : HandlerSettles(r, outcome)
  \/ SendMessage("sandbox-channel", Reply)
  \/ Subscribe(1)

Spec == Init /\ [][Next]_vars

(***************************************************************************)
(* Viewers and broadcast                                                   *)
(***************************************************************************)
InitCast ==
  /\ ProcFresh
  /\ StoreIdle
  /\ PluginListening
  /\ HostIdle
  /\ CastIdle
  /\ RecentIdle
  /\ ParseIdle
  /\ RestIdle

NextCast ==
  \/ \E v \in Viewers : Subscribe(v)
  \/ \E v \in Viewers : Disconnect(v)
  \/ \E v \in Viewers : CloseEvent(v)
  \/ SendMessage("sandbox-channel", Reply)

SpecCast == InitCast /\ [][NextCast]_vars

(***************************************************************************)
(* The store and the roster                                                *)
(***************************************************************************)
\* SIGINT or SIGTERM: process.exit(0). What the process held in memory is
\* kept in the variables, as the state it ended in.
Shutdown ==
  /\ Running
  /\ proc' = "stopped"
  /\ UNCHANGED <<now, resp, storeVars, hostVars, castVars, got, parseVars,
                 read, order, bootVars, lateVars>>

\* startServer runs again in a new process, with the same plugin: the Map
\* is filled from the file, the roster is the initial one. The log, the
\* requests and the viewers are empty in every state of this
\* specification, as a new process has them.
Restart ==
  /\ proc \in {"stopped", "crashed"}
  /\ proc' = "running"
  /\ storage' = LoadStorage(file)
  /\ wrote' = WroteBy(storage')
  /\ users' = InitialUsers
  /\ resp' = NoExchange
  /\ UNCHANGED <<now, file, hostVars, castVars, got, parseVars,
                 read, order, bootVars, lateVars>>

\* The file is one a previous run left behind, if any.
InitStore ==
  /\ ProcFresh
  /\ file \in {[exists |-> FALSE, data |-> EmptyTable]}
         \cup {[exists |-> TRUE, data |-> t] : t \in Tables}
  /\ storage = LoadStorage(file)
  /\ wrote = WroteBy(storage)
  /\ users = InitialUsers
  /\ PluginListening
  /\ HostIdle
  /\ CastIdle
  /\ RecentIdle
  /\ ParseIdle
  /\ RestIdle

NextStore ==
  \/ \E k \in StrKeys, v \in Values : CtxStorageSet(k, v)
  \/ \E k \in StrKeys : CtxStorageDelete(k)
  \/ \E body \in StorageBodies : PostStorage(body)
  \/ \E body \in TableBodies : PostStorageAll(body)
  \/ \E body \in UserBodies : PostUsers(body)
  \/ \E id \in {"user-1", "user-11"} : DeleteUsers(id)
  \/ Shutdown
  \/ Restart

SpecStore == InitStore /\ [][NextStore]_vars

(***************************************************************************)
(* The store, written and read                                             *)
(***************************************************************************)
NextRead ==
  \/ \E k \in StrKeys, v \in Values : CtxStorageSet(k, v)
  \/ \E k \in StrKeys : CtxStorageDelete(k)
  \/ \E body \in StorageBodies : PostStorage(body)
  \/ \E body \in TableBodies : PostStorageAll(body)
  \/ \E k \in StrKeys : CtxStorageGet(k)
  \/ \E k \in StrKeys : GetStorage(k)

SpecRead == InitStore /\ [][NextRead]_vars

(***************************************************************************)
(* The router                                                              *)
(***************************************************************************)
NextRoute ==
  \/ \E method \in Methods, path \in Paths, v \in Viewers, found \in BOOLEAN :
        Request(method, path, v, found)
  \/ \E v \in Viewers : Disconnect(v)
  \/ \E v \in Viewers : CloseEvent(v)

SpecRoute == InitCast /\ [][NextRoute]_vars

(***************************************************************************)
(* Startup                                                                 *)
(***************************************************************************)
\* bin.mjs has called startServer(port, extensionDir).
InitStart ==
  /\ ProcFresh
  /\ StoreIdle
  /\ phase = "start" /\ backend = "unloaded" /\ messageHandler = NoHandler
  /\ HostIdle
  /\ CastIdle
  /\ RecentIdle
  /\ ParseIdle
  /\ read = NoRead /\ order = <<>> /\ hook = NoHook
  /\ port \in {[NoPort EXCEPT !.requested = p] : p \in RequestedPorts}
  /\ LateIdle

NextStart ==
  \/ StartAbsent
  \/ StartImport
  \/ \E kind \in {"unrecognized", "broken", "recognized"} : ImportSettles(kind)
  \/ \E h \in Handlers : HookRegisters(h)
  \/ \E outcome \in {"resolved", "rejected"} : HookSettles(outcome)
  \/ \E code \in {"EADDRINUSE", "EACCES"} : OnError(code)
  \/ \E assigned \in EphemeralPorts : OnListening(assigned)
  \/ \E method \in {"GET", "POST"}, path \in {"/api/events", "/nope"}, v \in Viewers :
        Request(method, path, v, FALSE)

\* The event loop delivers the 'listening' event of a listen that succeeds.
SpecStart ==
  InitStart /\ [][NextStart]_vars /\ WF_vars(\E assigned \in EphemeralPorts : OnListening(assigned))

(***************************************************************************)
(* The mention extraction on its own                                       *)
(***************************************************************************)
InitMention ==
  /\ text \in Texts
  /\ sendIds = <<>>
  /\ postIds = <<>>
  /\ ProcFresh
  /\ StoreIdle
  /\ PluginListening
  /\ HostIdle
  /\ CastIdle
  /\ RecentIdle
  /\ RestIdle

NextMention == ExtractInSend \/ ExtractInPost

SpecMention == InitMention /\ [][NextMention]_vars


(***************************************************************************)
(* getMessages on histories of every length                                *)
(***************************************************************************)
\* The longest history; it is longer than the default limit.
MaxHistory == 52

\* The log after the plugin sent n messages, one per clock value.
History(n) == [i \in 1..n |-> BotEntry("sandbox-channel", Reply, i)]

Limits == {Omitted} \cup {Limit(k) : k \in 0..(MaxHistory + 1)}

InitRecent ==
  /\ messages \in {History(n) : n \in 0..MaxHistory}
  /\ now = Len(messages)
  /\ proc = "running"
  /\ resp = NoExchange
  /\ StoreIdle
  /\ PluginListening
  /\ NoRequests
  /\ CastIdle
  /\ RecentIdle
  /\ ParseIdle
  /\ RestIdle

NextRecent == \E limit \in Limits : GetMessages(limit)

SpecRecent == InitRecent /\ [][NextRecent]_vars


(***************************************************************************)
(* Storage mutation requests in flight together                            *)
(***************************************************************************)
NextPuts ==
  \/ \E r \in PutSlots, req \in PutRequests : AcceptPut(r, req)
  \/ \E r \in PutSlots : EndPut(r)
  \/ \E k \in StrKeys : GetStorage(k)

SpecPuts == InitStore /\ [][NextPuts]_vars

(***************************************************************************)
(* Registration and dispatch                                               *)
(***************************************************************************)
\* The submissions carry a JSON body with a user and a content.
NextDispatch ==
  \/ \E h \in Handlers : OnMessage(h)
  \/ \E r \in Slots, body \in {b \in MessageBodies : b.userId = "user-1"} : Accept(r, body)
  \/ \E r \in Slots : BodyEnd(r)
  \/ \E r \in Slots, outcome \in {"resolve", "rejectError"} : HandlerSettles(r, outcome)

SpecDispatch == InitCast /\ [][NextDispatch]_vars

(***************************************************************************)
(* Viewers whose connections close                                         *)
(***************************************************************************)
\* The event loop delivers the 'close' event of a request whose
\* connection has closed.
SpecClose ==
  InitCast /\ [][NextCast]_vars /\ \A v \in Viewers : WF_vars(CloseEvent(v))

(***************************************************************************)
(* The log under every operation of the host                               *)
(***************************************************************************)
\* One request slot, one viewer and one input of each storage and roster
\* operation.
NextLog ==
  \/ OnMessage("h1")
  \/ \E body \in {b \in MessageBodies : b.userId = "user-1"} : Accept(1, body)
  \/ BodyEnd(1)
  \/ HandlerSettles(1, "resolve")
  \/ SendMessage("sandbox-channel", Reply)
  \/ GetMessages(Limit(1))
  \/ CtxStorageSet("k1", "v1")
  \/ \E body \in {b \in TableBodies : b.kind = "object" /\ b.table = EmptyTable} :
        PostStorageAll(body)
  \/ \E body \in {b \in UserBodies : b.id = "user-11"} : PostUsers(body)
  \/ DeleteUsers("user-11")
  \/ Subscribe(1)
  \/ Disconnect(1)
  \/ CloseEvent(1)

SpecLog == InitCast /\ [][NextLog]_vars

(***************************************************************************)
(* The ids of the log's entries                                            *)
(***************************************************************************)
NextIds ==
  \/ Tick
  \/ OnMessage("h1")
  \/ \E r \in Slots, body \in {b \in MessageBodies : b.kind = "object"} : Accept(r, body)
  \/ \E r \in Slots : BodyEnd(r)
  \/ \E r \in Slots : HandlerSettles(r, "resolve")
  \/ SendMessage("sandbox-channel", Reply)

SpecIds == InitCast /\ [][NextIds]_vars

(***************************************************************************)
(* A handler that never completes                                          *)
(***************************************************************************)
\* The handler whose promise stays pending for ever.
Hanging == "h2"

\* The submissions that were accepted and have not pushed their entry.
Arriving == {r \in Slots : reqs[r].state = "accepted"}

\* A submission { userId: "user-1", content: "hi" }.
Hi == [NoBody EXCEPT !.kind = "object", !.userId = "user-1", !.content = <<"h", "i">>]

\* Submissions are accepted while the log has room for their entries.
NextHang ==
  \/ \E h \in Handlers : OnMessage(h)
  \/ \E r \in Slots :
        /\ Len(messages) + Cardinality(Arriving) < MaxLog
        /\ Accept(r, Hi)
  \/ \E r \in Slots : BodyEnd(r)
  \/ \E r \in Slots : reqs[r].handler # Hanging /\ HandlerSettles(r, "resolve")
  \/ \E req \in {q \in PutRequests : q.body.value = "v1"} : AcceptPut(1, req)
  \/ EndPut(1)
  \/ Subscribe(1)

\* The event loop runs the callbacks that are due, and a handler other
\* than the hanging one completes.
SpecHang ==
  /\ InitCast
  /\ [][NextHang]_vars
  /\ \A r \in Slots : WF_vars(BodyEnd(r))
  /\ \A r \in Slots : WF_vars(reqs[r].handler # Hanging /\ HandlerSettles(r, "resolve"))
  /\ WF_vars(EndPut(1))

(***************************************************************************)
(* A startup hook that registers a handler, and submissions after it       *)
(***************************************************************************)
NextHook ==
  \/ StartImport
  \/ ImportSettles("recognized")
  \/ \E h \in Handlers : HookRegisters(h)
  \/ \E outcome \in {"resolved", "rejected"} : HookSettles(outcome)
  \/ \E assigned \in EphemeralPorts : OnListening(assigned)
  \/ OnError("EADDRINUSE")
  \/ \E r \in Slots : Accept(r, Hi)
  \/ \E r \in Slots : BodyEnd(r)
  \/ \E r \in Slots : HandlerSettles(r, "resolve")

\* The event loop delivers the 'listening' event of a listen that succeeds.
SpecHook ==
  InitStart /\ [][NextHook]_vars /\ WF_vars(\E assigned \in EphemeralPorts : OnListening(assigned))

(***************************************************************************)
(* The useExtensionStorage hook                                            *)
(***************************************************************************)
NextUi ==
  \/ UiMount
  \/ \E key \in StrKeys : UiRekey(key)
  \/ \E id \in LoadIds : UiLoadServed(id)
  \/ \E id \in LoadIds, ok \in BOOLEAN : UiLoadSettles(id, ok)
  \/ \E value \in {"v1", "v2"} : UiChangeCalled("set", value)
  \/ UiChangeCalled("remove", JNull)
  \/ UiChangeServed
  \/ UiChangeSettles

SpecUi == InitCast /\ [][NextUi]_vars
(***************************************************************************)
(* What the claims are stated with                                         *)
(***************************************************************************)
Count(list, x) == Cardinality({i \in 1..Len(list) : list[i] = x})
NoDuplicate(list) == \A i, j \in 1..Len(list) : i # j => list[i] # list[j]
Min(a, b) == IF a <= b THEN a ELSE b

\* A marker <@id> spans s..e of t: "<@", one or more identifier characters, ">".
IsMarker(t, s, e) ==
  /\ e >= s + 3
  /\ t[s] = "<" /\ t[s + 1] = "@" /\ t[e] = ">"
  /\ \A i \in (s + 2)..(e - 1) : t[i] \in IdChars

MarkerSpans(t) ==
  LET opens == {s \in 1..Len(t) : t[s] = "<"}
      closes == {e \in 1..Len(t) : t[e] = ">"}
  IN {sp \in opens \X closes : IsMarker(t, sp[1], sp[2])}
MarkerId(t, sp) == SubSeq(t, sp[1] + 2, sp[2] - 1)
MarkerIdSet(t) == {MarkerId(t, sp) : sp \in MarkerSpans(t)}

\* ids is the identifiers of t's markers, each once, ordered by where the
\* first marker that names each starts.
FirstSeenOrder(t, ids) ==
  LET spans == MarkerSpans(t)
      starts(id) == {sp[1] : sp \in {q \in spans : MarkerId(t, q) = id}}
      first(id) == CHOOSE s \in starts(id) : \A r \in starts(id) : s <= r
  IN /\ NoDuplicate(ids)
     /\ Range(ids) = {MarkerId(t, sp) : sp \in spans}
     /\ \A i, j \in 1..Len(ids) : i < j => first(ids[i]) < first(ids[j])

\* The last k entries of list, all of them when k is at least its length.
LastK(list, k) ==
  [i \in 1..Min(k, Len(list)) |-> list[Len(list) - Min(k, Len(list)) + i]]

ParsesAsJson(body) == body.kind \in {"null", "object"}
UserTwo == <<"u", "s", "e", "r", "-", "2">>

(***************************************************************************)
(* C1 (stated as claimed; the code violates it).  Whatever mutations a     *)
(* process applied, a new process that loads the store from the backing    *)
(* file gets exactly the table the old one held: the same keys with the    *)
(* same values.                                                            *)
(***************************************************************************)
C1_ReloadReproducesTable == [][Restart => storage' = storage]_vars

(***************************************************************************)
(* C2 (stated as claimed; the code violates it).  getMessages(channelId,   *)
(* k) returns the last k entries of the log in their order, the empty list *)
(* for k = 0 and the whole log for k at least its length; k is 50 when no  *)
(* limit is given.                                                         *)
(***************************************************************************)
C2_RecentReturnsLastK ==
  got.called =>
    got.result = LastK(messages, IF got.limit.given THEN got.limit.value ELSE 50)

(***************************************************************************)
(* C3 (stated as claimed; the code violates it).  The 'end' listener of a  *)
(* POST /api/messages whose body parses as JSON appends exactly one entry  *)
(* to the log, with the submission's userId and user, whether or not a     *)
(* handler is registered; the handler's settling changes no entry.         *)
(***************************************************************************)
C3_SubmissionAppendsOneEntry ==
  [][\A r \in Slots :
       /\ (BodyEnd(r) /\ ParsesAsJson(reqs[r].body)) =>
            /\ Len(messages') = Len(messages) + 1
            /\ SubSeq(messages', 1, Len(messages)) = messages
            /\ messages'[Len(messages')].userId = reqs[r].body.userId
            /\ messages'[Len(messages')].user.id = reqs[r].body.userId
       /\ \A o \in Outcomes : HandlerSettles(r, o) => messages' = messages]_vars

(***************************************************************************)
(* C4.  A sendMessage calls write exactly once for every viewer that is    *)
(* registered when it is called and for no other; no message is written    *)
(* twice to a viewer; a viewer receives no broadcast made after its        *)
(* connection closed, and is not written to by any broadcast made after    *)
(* its 'close' listener ran.                                               *)
(***************************************************************************)
C4_BroadcastReachesEachViewerOnce ==
  \A v \in Viewers :
    /\ cast.index # 0 =>
         /\ Count(written[v], cast.index) = (IF v \in cast.targets THEN 1 ELSE 0)
         /\ (v \in cast.targets /\ closedAt[v] = {}) => cast.index \in received[v]
    /\ \A i \in 1..Len(messages) : Count(written[v], i) <= 1
    /\ \A n \in closedAt[v] : \A i \in received[v] : i <= n
    /\ \A n \in removedAt[v] : \A i \in Range(written[v]) : i <= n

\* Two viewers got the first broadcast; the second viewer then closed and
\* was removed, and the second broadcast went to the first viewer alone.
C4_Witness ==
  /\ cast.index = 2
  /\ cast.targets = {1}
  /\ received[1] = {1, 2}
  /\ received[2] = {1}
  /\ removedAt[2] = {1}

(***************************************************************************)
(* C5 (stated as claimed; the code violates it).  When a write of a        *)
(* broadcast fails, every other registered viewer still gets the message,  *)
(* the failing viewer is no longer registered when sendMessage returns,    *)
(* and sendMessage's promise does not reject.                              *)
(***************************************************************************)
C5_FailedWriteRemovesViewer ==
  cast.index # 0 =>
    /\ \A v \in cast.targets \ cast.failed : cast.index \in received[v]
    /\ cast.failed \cap cast.after = {}
    /\ cast.settled = "resolved"

(***************************************************************************)
(* C6 (stated as claimed; the code violates it).  A body that is not JSON, *)
(* sent to POST /api/messages, /api/storage, /api/storage/all or           *)
(* /api/users, is answered with a 4xx status and the process keeps         *)
(* running.                                                                *)
(***************************************************************************)
C6_MalformedBodyIsClientError ==
  /\ resp.malformed => (resp.status \in 400..499 /\ proc = "running")
  /\ \A r \in Slots :
       (reqs[r].body.kind = "malformed" /\ reqs[r].state # "accepted") =>
         (reqs[r].state = "answered" /\ reqs[r].status \in 400..499 /\ proc = "running")

(***************************************************************************)
(* C7 (stated as claimed, for the submissions whose body parses as JSON;   *)
(* the code violates it).  With no handler registered a submission is      *)
(* answered 200 with the note that none is registered and no handler is    *)
(* invoked; when the handler completes the answer is 200; when it fails    *)
(* the answer is 500, the process keeps running and the registered viewers *)
(* are the same.                                                           *)
(***************************************************************************)
C7_ResponseFollowsHandlerOutcome ==
  [][\A r \in Slots :
       /\ (BodyEnd(r) /\ ParsesAsJson(reqs[r].body) /\ messageHandler = NoHandler) =>
            /\ reqs'[r].state = "answered"
            /\ reqs'[r].status = 200
            /\ reqs'[r].detail = "No message handler registered"
            /\ reqs'[r].handler = NoHandler
       /\ HandlerSettles(r, "resolve") =>
            (reqs'[r].state = "answered" /\ reqs'[r].status = 200)
       /\ \A o \in {"rejectError", "rejectNullish"} : HandlerSettles(r, o) =>
            /\ reqs'[r].state = "answered"
            /\ reqs'[r].status = 500
            /\ proc' = "running"
            /\ clients' = clients]_vars

(***************************************************************************)
(* C8 (stated as claimed; the code violates it).  Between operations the   *)
(* backing file holds exactly the in-memory table, an absent file counting *)
(* as the empty table.                                                     *)
(***************************************************************************)
C8_FileEqualsTable ==
  Running => storage = (IF file.exists THEN file.data ELSE EmptyTable)

(***************************************************************************)
(* C9.  Every extraction, in sendMessage and in POST /api/messages, first  *)
(* call or repeated, returns the identifiers of the text's <@id> markers,  *)
(* each once, in the order of their first occurrence; all calls on the     *)
(* same text return the same list.                                         *)
(***************************************************************************)
C9_MentionExtraction ==
  /\ \A i \in 1..Len(sendIds) : FirstSeenOrder(text, sendIds[i])
  /\ \A i \in 1..Len(postIds) : FirstSeenOrder(text, postIds[i])
  /\ \A i \in 1..Len(sendIds) : \A j \in 1..Len(postIds) : sendIds[i] = postIds[j]
  /\ \A i, j \in 1..Len(sendIds) : sendIds[i] = sendIds[j]
  /\ \A i, j \in 1..Len(postIds) : postIds[i] = postIds[j]

\* "<@b><@a><@b>" was extracted twice in each place.
C9_Witness ==
  /\ text = <<"<", "@", "b", ">", "<", "@", "a", ">", "<", "@", "b", ">">>
  /\ Len(sendIds) = 2
  /\ Len(postIds) = 2
  /\ postIds[2] = << <<"b">>, <<"a">> >>

(***************************************************************************)
(* C10 (stated as claimed; the code violates it).  Every submission whose  *)
(* body is an object has, once its 'end' listener has run, an entry in the *)
(* log, and the mentionIds of that entry has no duplicate and holds        *)
(* exactly the ids the submission supplied and the ids of the markers in   *)
(* its content; "hello <@user-2> and <@user-2>" with no supplied ids is    *)
(* stored with mentionIds ["user-2"].                                      *)
(***************************************************************************)
C10_StoredMentionIds ==
  \A r \in Slots :
    (reqs[r].body.kind = "object" /\ reqs[r].state \in {"handling", "answered", "hung"}) =>
      /\ reqs[r].at # 0
      /\ LET data == reqs[r].body
             stored == messages[reqs[r].at].mentionIds IN
         /\ NoDuplicate(stored)
         /\ Range(stored) =
              (IF data.hasIds THEN Range(data.mentionIds) ELSE {}) \cup MarkerIdSet(data.content)
         /\ (data.content = Hello /\ ~data.hasIds) => stored = <<UserTwo>>

\* Where the first marker of t that names id starts.
FirstMarkerStart(t, id) ==
  LET starts == {sp[1] : sp \in {q \in MarkerSpans(t) : MarkerId(t, q) = id}}
  IN CHOOSE s \in starts : \A r \in starts : s <= r

\* The position of id in ids, 0 when it is not there.
PositionIn(ids, id) ==
  IF id \in Range(ids) THEN CHOOSE i \in 1..Len(ids) : ids[i] = id ELSE 0

(***************************************************************************)
(* C11 (stated as claimed; the code violates it).  In every entry of the   *)
(* log, whichever origin, every id named by a marker of content is in      *)
(* mentionIds, and two such ids stand in mentionIds in the order in which  *)
(* they first occur in content, also when the submission supplied ids.     *)
(***************************************************************************)
C11_ContentIdsInContentOrder ==
  \A n \in 1..Len(messages) :
    LET entry == messages[n]
        named == MarkerIdSet(entry.content) IN
    /\ named \subseteq Range(entry.mentionIds)
    /\ \A x, y \in named :
         FirstMarkerStart(entry.content, x) < FirstMarkerStart(entry.content, y)
           => PositionIn(entry.mentionIds, x) < PositionIn(entry.mentionIds, y)

\* The fields of the Message record.
MessageFields ==
  {"id", "channelId", "workspaceId", "content", "userId", "mentionIds",
   "createdAt", "user"}

(***************************************************************************)
(* C12 (stated as claimed; the code violates it).  Every entry of the log, *)
(* appended by a submission or by sendMessage, has every field of the      *)
(* Message record: id, channelId, workspaceId, content, userId,            *)
(* mentionIds, createdAt and user, with user holding id and name.          *)
(***************************************************************************)
C12_EntriesCarryEveryField ==
  \A n \in 1..Len(messages) :
    /\ MessageFields \subseteq DOMAIN messages[n]
    /\ {"id", "name"} \subseteq DOMAIN messages[n].user

C14_ReplaceAllLeavesExactlyT ==
  [][\A body \in TableBodies :
       (PostStorageAll(body) /\ body.kind = "object" /\ resp'.status = 200) =>
         /\ storage' = body.table
         /\ file' = [exists |-> TRUE, data |-> body.table]]_vars

\* The table was replaced by {k2: v1}: k1 is in neither the memory nor
\* the file.
C14_Witness ==
  /\ resp.route = "POST /api/storage/all" /\ resp.status = 200
  /\ storage = ("k2" :> "v1")
  /\ file = [exists |-> TRUE, data |-> ("k2" :> "v1")]
  /\ wrote["k1"] = Absent

\* The routing table: the (method, path) pairs that have a handler.
InTable(method, path) ==
  \/ method = "GET" /\ path \in {"/api/events", "/api/storage", "/api/storage/all",
                                   "/api/users"} \cup StaticPaths
  \/ method = "POST" /\ path \in {"/api/messages", "/api/storage", "/api/storage/all",
                                    "/api/users"}
  \/ method = "DELETE" /\ path = "/api/users"

(***************************************************************************)
(* C15 (stated as claimed; the code violates it).  A request whose method  *)
(* and path are no pair of the routing table is answered 404 and changes   *)
(* neither the store, the roster, the log, the handler nor the viewers: no *)
(* viewer is registered by a non-GET request to /api/events, and no        *)
(* non-GET request to /bundle.js, /manifest.json, /icon.png or / is served.*)
(* The CORS preflight (OPTIONS), which the callback answers 200 before it  *)
(* looks at the path, is left aside.                                       *)
(***************************************************************************)
C15_UnroutedIsNotFound ==
  [][\A method \in Methods \ {"OPTIONS"}, path \in Paths, v \in Viewers, found \in BOOLEAN :
       (Request(method, path, v, found) /\ ~InTable(method, path)) =>
         /\ resp'.status = 404
         /\ UNCHANGED <<storeVars, hostVars, castVars>>]_vars

(***************************************************************************)
(* C16.  When the first listen fails because the requested port is         *)
(* occupied, the process keeps running and the server eventually listens   *)
(* on a port other than the requested one, and the port it reports is the  *)
(* port it listens on.                                                     *)
(***************************************************************************)
C16_OccupiedPortFallsBack ==
  port.taken ~>
    (/\ Running
     /\ phase = "listening"
     /\ port.bound # 0
     /\ port.bound # port.requested
     /\ port.reported = port.bound)

\* 49152 was requested and occupied; the server listens on 49153 and says so.
C16_Witness ==
  /\ port.taken
  /\ port.requested = 49152
  /\ phase = "listening"
  /\ port.bound = 49153
  /\ port.reported = 49153

(***************************************************************************)
(* C17.  In a run of startServer the context is built once and onLoad is   *)
(* called at most once, exactly once when the backend exports a recognized *)
(* extension; once server.listen has been called the hook is no longer     *)
(* running, and no request is routed while it runs.                        *)
(***************************************************************************)
C17_HookOnceBeforeListen ==
  /\ hook.ctx <= 1
  /\ phase # "start" => hook.ctx = 1
  /\ hook.calls <= 1
  /\ backend \in {"loading", "loaded", "failed"} => hook.calls = 1
  /\ phase \in {"binding", "listening", "unbound"} => hook.state # "running"
  /\ (resp.route # "none" \/ clients # {}) => hook.state # "running"
  /\ hook.state = "running" => phase = "hook"

\* The hook was called once, registered a handler and resolved; the server
\* listens and has registered a viewer.
C17_Witness ==
  /\ hook = [ctx |-> 1, calls |-> 1, state |-> "resolved"]
  /\ messageHandler = "h1"
  /\ phase = "listening"
  /\ clients = {1}

(***************************************************************************)
(* C18.  The run of startServer that finds no backend artifact, that finds *)
(* an export it does not recognize, or whose startup hook fails, leaves    *)
(* the process running with the server created and server.listen called;   *)
(* in the first two cases onLoad was not called and no message handler is  *)
(* registered.                                                             *)
(***************************************************************************)
C18_BackendFailuresAreNotFatal ==
  [][/\ (StartAbsent \/ ImportSettles("unrecognized")) =>
          /\ proc' = "running"
          /\ phase' = "binding"
          /\ hook'.calls = 0
          /\ messageHandler' = NoHandler
     /\ HookSettles("rejected") =>
          /\ proc' = "running"
          /\ phase' = "binding"]_vars

\* The hook registered a handler and then failed; the server listens.
C18_Witness ==
  /\ backend = "failed"
  /\ hook.state = "rejected"
  /\ messageHandler = "h2"
  /\ Listening

\* Slot a stands before slot b in the order of acceptance.
AcceptedBefore(a, b) ==
  \E i, j \in 1..Len(order) : i < j /\ order[i] = a /\ order[j] = b

(***************************************************************************)
(* C19 (stated as claimed; the code violates it).  Of two submissions that *)
(* both have an entry in the log, the one whose request the router         *)
(* accepted first has the earlier entry, whatever the order in which their *)
(* bodies ended and their handlers settled.                                *)
(***************************************************************************)
C19_LogFollowsAcceptOrder ==
  \A a, b \in Slots :
    (reqs[a].at # 0 /\ reqs[b].at # 0 /\ AcceptedBefore(a, b)) =>
      reqs[a].at < reqs[b].at

(***************************************************************************)
(* C20.  Every write of a message to a viewer found the message in the     *)
(* log: sendMessage pushes it before it writes it to anyone, and the       *)
(* message still stands in the log where it stood then.                    *)
(***************************************************************************)
C20_WrittenMessagesAreLogged ==
  \A v \in Viewers : \A j \in 1..Len(written[v]) :
    /\ written[v][j] \in 1..Len(messages)
    /\ messages[written[v][j]].userId = "ext-bot"

\* Viewer 1 was written both broadcasts; viewer 2 subscribed between them
\* and was written the second.
C20_Witness ==
  /\ Len(messages) = 2
  /\ written[1] = <<1, 2>>
  /\ written[2] = <<2>>

\* C21: storage mutation requests that overlap are applied whole, one after
\* the other, in the order they arrived. Whenever none is in flight the
\* table is what applying the accepted requests in the order the router
\* accepted them gives, and at every moment a read can be made the file
\* holds the whole table.
C21_MutationsApplyInArrivalOrder ==
  /\ storage = LoadStorage(file)
  /\ puts.order = <<>> => \A t \in puts.serial : storage = t

\* C22: one handler is registered at a time, the one the latest onMessage
\* call was given; a submission that is dispatched is handed to that
\* handler, once, and to no other.
C22_DispatchToLatestHandler ==
  [][/\ messageHandler' = registered'
     /\ \A r \in Slots :
          reqs[r].state # "handling" /\ reqs'[r].state = "handling"
            => reqs'[r].invoked = <<registered>>]_vars

\* Two submissions were dispatched, one before and one after the handler
\* was replaced.
C22_Witness ==
  \E r, q \in Slots : reqs[r].invoked = <<"h1">> /\ reqs[q].invoked = <<"h2">>

\* The viewers the host holds a connection for: those that subscribed and
\* whose request has not had its 'close' event.
HeldOpen == {v \in Viewers : conn[v] # "none" /\ removedAt[v] = {}}

IsPrefix(a, b) == Len(a) <= Len(b) /\ \A i \in 1..Len(a) : a[i] = b[i]

\* C24: the log is append-only. Whatever operation the host runs, the log
\* before it is a prefix of the log after it.
C24_LogIsAppendOnly == [][IsPrefix(messages, messages')]_vars

\* The log holds a submission and a message of the plugin, and a
\* getMessages call, a storage write, a roster change and a viewer's
\* subscription happened beside them.
C24_Witness ==
  /\ Len(messages) = 2
  /\ {messages[1].userId, messages[2].userId} = {"user-1", "ext-bot"}
  /\ got.called
  /\ storage # EmptyTable
  /\ Len(users) # MockUserCount
  /\ clients # {}

\* C26: no two entries of the log have the same id.
C26_LogIdsAreUnique ==
  \A i, j \in 1..Len(messages) : i # j => messages[i].id # messages[j].id

\* A submission is with the handler that never completes.
SomeHung == \E r \in Slots : reqs[r].state = "handling" /\ reqs[r].handler = Hanging

\* C25: while a handler never completes, only the submission it was given
\* stays without a response. A submission accepted meanwhile is routed and,
\* when its own handler completes, answered; a storage write in flight is
\* applied and answered; the host goes on routing, so that storage reads
\* and subscriptions are served.
C25_HungHandlerHoldsOnlyItsRequest ==
  /\ \A r \in Slots :
       (SomeHung /\ reqs[r].state = "accepted")
         ~> (reqs[r].state = "answered"
             \/ (reqs[r].state = "handling" /\ reqs[r].handler = Hanging))
  /\ (SomeHung /\ puts.slots[1].state = "open")
       ~> (puts.slots[1].state = "idle" /\ resp.status = 200)
  /\ [](SomeHung => Listening)

\* With one submission hung, a second one was answered, a storage write
\* was applied and a viewer subscribed.
C25_Witness ==
  /\ \E r, q \in Slots :
       /\ reqs[r].state = "handling" /\ reqs[r].handler = Hanging
       /\ reqs[q].state = "answered" /\ reqs[q].at > reqs[r].at /\ reqs[r].at > 0
  /\ storage # EmptyTable
  /\ clients # {}

\* C27: a POST /api/storage/all that is answered with an error status
\* leaves the table and the file as they were.
C27_FailedReplaceAllChangesNothing ==
  [][(\E body \in TableBodies : PostStorageAll(body)) /\ resp'.status >= 400
       => storage' = storage /\ file' = file]_vars

\* The startup hook registered a handler and then failed.
HookFailedAfterRegistering == hook.state = "rejected" /\ registered # NoHandler

\* C28: a handler the startup hook registered before it failed stays
\* registered; the server comes to listen, and a submission made afterwards
\* is handed to that handler.
C28_FailedHookKeepsItsHandler ==
  /\ [](HookFailedAfterRegistering => messageHandler = registered /\ proc = "running")
  /\ HookFailedAfterRegistering ~> (phase = "listening")
  /\ [][\A r \in Slots :
          HookFailedAfterRegistering /\ reqs[r].state = "accepted"
            /\ reqs'[r].state # "accepted"
          => reqs'[r].state = "handling" /\ reqs'[r].invoked = <<registered>>]_vars

\* The hook registered h1 and failed, and a submission was handed to h1
\* and answered.
C28_Witness ==
  /\ hook.state = "rejected"
  /\ registered = "h1"
  /\ port.taken /\ phase = "listening"
  /\ reqs[1].state = "answered"
  /\ reqs[1].invoked = <<"h1">>

\* C29: in useExtensionStorage, after set(value) has resolved and until the
\* next set, remove or change of key, data is value; and a load that a
\* newer load superseded writes neither data, error nor isLoading.
C29_SetValueStaysUntilNextChange ==
  /\ ui.settled.valid => ui.data = ui.settled.value
  /\ ~ui.late
====
